---- MODULE Spec2Model ----
(***************************************************************************)
(* The broadcast subsystem of c2casgiutils: the process-wide Facade        *)
(* (c2casgiutils/broadcast/__init__.py) over a Local or a Networked        *)
(* (Redis) broadcaster, run by the coroutines of one event loop.           *)
(*                                                                         *)
(* The Facade is translated from __init__.py.  The two broadcaster         *)
(* classes (broadcast/local.py, broadcast/redis.py) and redis_utils are    *)
(* not part of the source tree at hand; they are modelled from sections    *)
(* 4.1-4.3 and 5 of the specification.                                     *)
(***************************************************************************)
EXTENDS Integers, Sequences, FiniteSets, TLC

\* ------------------------------------------------------------------ bounds
MaxCalls == 4       \* Facade calls started in one run
MaxInst == 3        \* broadcaster instances constructed in one run
MaxParam == 1       \* parameter values are 0..MaxParam
NTasks == 2         \* coroutines of the event loop that call the Facade
MaxReq == 3         \* Networked broadcasts followed message by message in one run

\* --------------------------------------------------------------- constants
Channels == {"test1", "test2"}
Handlers == {"cb1", "cb2"}
NoHandler == "None"
Params == 0..MaxParam
Insts == 1..MaxInst
Tasks == 1..NTasks
PyNone == -1        \* the payload of a handler that returns None
Self == "P"         \* this process in the networked store
ThisHost == "host"  \* socket.gethostname()
ThisPid == 1        \* os.getpid()
Remote == {"Q"}                 \* the other workers that share the networked store
Procs == {Self} \cup Remote
RemoteHandler == "cb1"          \* the workers are identical: each subscribes cb1

\* The functions given to decorate(): cb1_ and cb2_ of test_decorator, two
\* functions that return their argument, one without annotations and one
\* annotated with a structured model type, and a function without annotations
\* that builds a model from a plain value.
Funcs == {"cb1_", "cb2_", "echo", "echo_model", "to_model"}
NoStub == "none"
NoChannel == "None"             \* decorate(channel=None)
\* The channel names decorate() derives, and the explicit one of the test.
Derived(f) ==
    CASE f = "cb1_" -> "c2c_decorated_test.cb1_"
      [] f = "cb2_" -> "c2c_decorated_test.cb2_"
      [] f = "echo" -> "c2c_decorated_test.echo"
      [] f = "to_model" -> "c2c_decorated_test.to_model"
      [] OTHER -> "c2c_decorated_test.echo_model"
DecChannels == {"test3"} \cup {Derived(f) : f \in Funcs}
AllChannels == Channels \cup DecChannels

\* Values of keyword arguments and results: None (or no argument), a plain
\* value, a plain mapping, a structured model instance; and a raised exception.
NoArg == [kind |-> "none", x |-> 0]
Plain(v) == [kind |-> "int", x |-> v]
Mapping(v) == [kind |-> "dict", x |-> v]
Model(v) == [kind |-> "model", x |-> v]
Raises == [kind |-> "raise", x |-> 0]
\* The keyword arguments of the stub calls: none, and value=12 of the test as
\* a plain value, a plain mapping and a model.
Values == {NoArg, Plain(12), Mapping(12), Model(12)}

\* get_type_hints(func): the annotation of the parameter, and of the result.
ParamHint(f) == IF f = "echo_model" THEN "Model" ELSE "none"
_get_return_type(f) == IF f = "echo_model" THEN "Model" ELSE "None"
\* The functions themselves: cb1_ returns value + 1, cb2_ takes no argument and
\* returns None, the others return their argument; a call with an argument
\* the function cannot take raises.
FApply(f, a) ==
    CASE f = "cb1_" -> IF a.kind = "int" THEN Plain(a.x + 1) ELSE Raises
      [] f = "cb2_" -> IF a = NoArg THEN NoArg ELSE Raises
      [] f = "to_model" -> IF a.kind = "int" THEN Model(a.x) ELSE Raises
      [] OTHER -> IF a = NoArg THEN Raises ELSE a

\* _serialize_params: a model instance becomes its plain mapping.
_serialize_params(a) == IF a.kind = "model" THEN Mapping(a.x) ELSE a
\* Mutation: the adapter passes the wire mapping on without rebuilding it.
_deserialize_kwargs_plain(a, f) == a
\* _deserialize_kwargs: a mapping whose parameter is annotated with a model
\* type is rebuilt into the model.
_deserialize_kwargs(a, f) ==
    IF a.kind = "dict" /\ ParamHint(f) = "Model" THEN Model(a.x) ELSE a
\* Mutation: the payload is returned as it came, whatever the return type.
_deserialize_payload_plain(payload, return_type) == payload
\* _deserialize_payload: a mapping is rebuilt when the return type is a model type.
_deserialize_payload(payload, return_type) ==
    IF return_type = "None" THEN payload
    ELSE IF payload.kind = "dict" /\ return_type = "Model" THEN Model(payload.x)
    ELSE payload
\* decorate.async_wrapper: the function is called (and awaited).
async_wrapper(f, a) == FApply(f, a)
\* Mutation: the adapter catches the exception of the function and returns None.
subscribe_func_swallow(f, wire) ==
    LET result == async_wrapper(f, _deserialize_kwargs(wire, f))
    IN IF result.kind = "model" THEN Mapping(result.x)
       ELSE IF result.kind = "raise" THEN NoArg ELSE result
\* decorate.subscribe_func, the adapter subscribed to the channel.
subscribe_func(f, wire) ==
    LET result == async_wrapper(f, _deserialize_kwargs(wire, f))
    IN IF result.kind = "model" THEN Mapping(result.x) ELSE result
\* decorate, line 214.
_channel(f, channel) == IF channel = NoChannel THEN Derived(f) ELSE channel

\* The handlers of test_local: cb1 returns data + 1, cb2 returns None.
Apply(h, v) == IF h = "cb1" THEN v + 1 ELSE PyNone

\* utils.add_host_info: the handler's result with the host's identity.
add_host_info(response) ==
    [hostname |-> ThisHost, pid |-> ThisPid, payload |-> response]

\* The same on the worker p, which runs on a host of its own.
RemoteInfo(p, response) ==
    [hostname |-> p, pid |-> ThisPid, payload |-> response]

\* A response as a broadcaster hands it to the Facade: a dict, or None for an
\* answer that did not arrive.
Dict(d) == [isNone |-> FALSE, hostname |-> d.hostname, pid |-> d.pid, payload |-> d.payload]
NoneResponse == [isNone |-> TRUE, hostname |-> "", pid |-> 0, payload |-> 0]

\* What the Facade returns in a list: BroadcastResponse(**response) or MissingAnswer().
BroadcastResponse(r) ==
    [tag |-> "BroadcastResponse", hostname |-> r.hostname, pid |-> r.pid, payload |-> r.payload]
MissingAnswer == [tag |-> "MissingAnswer", hostname |-> "", pid |-> 0, payload |-> 0]

\* A return value: Python's None, or a list.
ReturnNone == [isNone |-> TRUE, list |-> <<>>]
ReturnList(l) == [isNone |-> FALSE, list |-> l]

VARIABLES
    _broadcaster,   \* the module global: 0 is None, else the active instance
    kind,           \* kind[i]: "free" (not constructed), "Local" or "Redis"
    inited,         \* inited[i]: init() of instance i has completed
    subscribers,    \* subscribers[i][c]: the handler instance i holds for channel c
    registry,       \* networked store: registry[c], the processes with a liveness entry
    reachable,      \* redis_utils.get() returns a master and a slave
    task,           \* task[t]: the coroutine t, its call and where it is suspended
    done,           \* the Facade call that returned last, with what it returned
    calls,          \* the number of Facade calls started so far
    unsubscribed,   \* unsubscribed[c]: unsubscribe(c) returned and no subscribe(c) was called since
    fleet,          \* fleet[p]: the worker p, whether it is alive and the channels it subscribed
    loop,           \* loop[p]: the message loop of process p
    stubs,          \* the stubs decorate() returned: the function, its channel, expect_answers
    net,            \* the networked store's traffic of the broadcasts that expect answers
    cleared         \* cleared[c]: cleanup() dropped a broadcaster subscribed to c and no subscribe(c) was called since

vars == <<_broadcaster, kind, inited, subscribers, registry, reachable, task, done, calls,
          unsubscribed, fleet, loop, stubs, net, cleared>>

\* A coroutine outside any Facade call.  During a call: op, the call; inst, the
\* broadcaster it runs on or constructs; prev and target, prev_broadcaster and
\* the broadcaster line 53 finds in the global; pre, the handler that broadcaster held for the
\* channel when the call started; ready, whether its init() had completed then;
\* afterUnsub and afterCleanup, unsubscribed[chan] and cleared[chan] then; ncalls and invoked, the handler
\* invocations the call caused in this process; n, replies and pending, the
\* expected count, the answers received and the processes still to receive the
\* message of a Networked broadcast; touched, the channels subscribed through
\* the Facade while this startup() was suspended, cleaned, whether cleanup()
\* ran meanwhile, and failed, whether the init() it awaited raised; counted,
\* the processes in the liveness registry at dispatch, answered, those whose
\* answer was collected, raisedAt, those whose handler raised, and recovered,
\* those whose handler had raised, for a request of the calls still on
\* record, before the dispatch; for the call of a stub: stub, the decorated
\* function, kwargs, the keyword argument given, wire, its serialized form, got,
\* the argument the function was invoked with, positional, whether positional
\* arguments were given; swapped, startup() replaced the active broadcaster
\* while the call was suspended in its handler.
IdleTask ==
    [pc |-> "idle", op |-> "none", inst |-> 0, prev |-> 0, chan |-> "", cb |-> NoHandler,
     target |-> 0, param |-> 0, expect |-> FALSE, pre |-> NoHandler, afterUnsub |-> FALSE, afterCleanup |-> FALSE,
     ready |-> TRUE,
     ncalls |-> 0, invoked |-> NoHandler, n |-> 0, replies |-> <<>>, pending |-> {},
     touched |-> {}, cleaned |-> FALSE, failed |-> FALSE,
     counted |-> {}, answered |-> {}, raisedAt |-> {}, recovered |-> {},
     stub |-> NoStub, kwargs |-> NoArg, wire |-> NoArg, got |-> NoArg, positional |-> FALSE,
     swapped |-> FALSE]

\* The record of a call that returns: the coroutine's, and what it returned.
Returned(r, ret, timedout, raised) ==
    [op |-> r.op, inst |-> r.inst, prev |-> r.prev, target |-> r.target, chan |-> r.chan, cb |-> r.cb,
     param |-> r.param, expect |-> r.expect, pre |-> r.pre, afterUnsub |-> r.afterUnsub,
     afterCleanup |-> r.afterCleanup,
     ready |-> r.ready, ncalls |-> r.ncalls, invoked |-> r.invoked, n |-> r.n,
     touched |-> r.touched, cleaned |-> r.cleaned, failed |-> r.failed,
     counted |-> r.counted, answered |-> r.answered, raisedAt |-> r.raisedAt,
     recovered |-> r.recovered,
     stub |-> r.stub, kwargs |-> r.kwargs, wire |-> r.wire, got |-> r.got,
     positional |-> r.positional, swapped |-> r.swapped,
     timedout |-> timedout, raised |-> raised, ret |-> ret]

NumInst == Cardinality({i \in Insts : kind[i] # "free"})
Fresh == NumInst + 1
CanConstruct == NumInst < MaxInst
NoSubscribers == [c \in AllChannels |-> NoHandler]

\* ------------------------------------------------------------------ Facade

\* Mutation: the constructed broadcaster is returned but not stored in the global.
_get_not_stored(b, fresh) ==
    IF b = 0
    THEN [ret |-> fresh, broadcaster |-> b, constructed |-> TRUE]
    ELSE [ret |-> b, broadcaster |-> b, constructed |-> FALSE]
\* Mutation: line 58 without its test: a LocalBroadcaster is constructed and
\* stored even when a broadcaster is active.
_get_always_new(b, fresh) ==
    IF b = 0 \/ fresh <= MaxInst
    THEN [ret |-> fresh, broadcaster |-> fresh, constructed |-> TRUE]
    ELSE [ret |-> b, broadcaster |-> b, constructed |-> FALSE]
\* _get(): the active broadcaster; a LocalBroadcaster is constructed (and stored,
\* without init()) when there is none.
_get(b, fresh) ==
    IF b = 0
    THEN [ret |-> fresh, broadcaster |-> fresh, constructed |-> TRUE]
    ELSE [ret |-> b, broadcaster |-> b, constructed |-> FALSE]

\* Mutation: line 40 also takes the first branch when no store is reachable.
startup_branch_downgrade(b, k, reach) ==
    IF b = 0 \/ ~reach
    THEN IF reach THEN "new_redis" ELSE "new_local"
    ELSE IF k = "Local" /\ reach THEN "migrate" ELSE "noop"
\* Mutation: line 48 without its isinstance test.
startup_branch_no_isinstance(b, k, reach) ==
    IF b = 0
    THEN IF reach THEN "new_redis" ELSE "new_local"
    ELSE IF reach THEN "migrate" ELSE "noop"
\* startup(): which branch the tests of lines 40, 41 and 48 select.
startup_branch(b, k, reach) ==
    IF b = 0
    THEN IF reach THEN "new_redis" ELSE "new_local"
    ELSE IF k = "Local" /\ reach THEN "migrate" ELSE "noop"

\* broadcast(), lines 107-112: None stays None, each response becomes a
\* BroadcastResponse and each None a MissingAnswer.
\* Mutation: the test of line 111 inverted.
Convert_inverted(responses) ==
    [j \in 1..Len(responses) |->
        IF responses[j].isNone THEN BroadcastResponse(responses[j]) ELSE MissingAnswer]
\* Mutation: a None response becomes an Envelope without payload instead of a
\* MissingAnswer.
Convert_none_payload(responses) ==
    [j \in 1..Len(responses) |->
        IF ~responses[j].isNone THEN BroadcastResponse(responses[j])
        ELSE BroadcastResponse([hostname |-> "", pid |-> 0, payload |-> PyNone])]
\* Mutation: the comprehension of lines 110-112 skips the None responses.
IsAnswer(r) == ~r.isNone
Convert_skip_none(responses) ==
    [j \in 1..Len(SelectSeq(responses, IsAnswer)) |->
        BroadcastResponse(SelectSeq(responses, IsAnswer)[j])]
Convert(responses) ==
    [j \in 1..Len(responses) |->
        IF ~responses[j].isNone THEN BroadcastResponse(responses[j]) ELSE MissingAnswer]
\* Mutation: line 107 tests "not responses", so an empty list returns None too.
broadcast_result_falsy(responses) ==
    IF responses.isNone \/ Len(responses.list) = 0
    THEN ReturnNone ELSE ReturnList(Convert(responses.list))
\* Mutation: line 108 returns [] where it should return None.
broadcast_result_list(responses) ==
    IF responses.isNone THEN ReturnList(<<>>) ELSE ReturnList(Convert(responses.list))
broadcast_result(responses) ==
    IF responses.isNone THEN ReturnNone ELSE ReturnList(Convert(responses.list))

\* Mutation: line 239 returns an empty list where it should return None.
wrapper_result_empty_list(f, expect_answers, responses) ==
    IF expect_answers /\ ~responses.isNone
    THEN ReturnList([j \in 1..Len(responses.list) |->
            IF responses.list[j].tag = "BroadcastResponse"
            THEN [responses.list[j] EXCEPT
                    !.payload = _deserialize_payload(@, _get_return_type(f))]
            ELSE responses.list[j]])
    ELSE ReturnList(<<>>)
\* decorate.wrapper, lines 224-239: what the stub of f returns for what
\* broadcast() returned.
wrapper_result(f, expect_answers, responses) ==
    IF expect_answers
    THEN IF responses.isNone THEN ReturnNone
         ELSE ReturnList([j \in 1..Len(responses.list) |->
                IF responses.list[j].tag = "BroadcastResponse"
                THEN [responses.list[j] EXCEPT
                        !.payload = _deserialize_payload(@, _get_return_type(f))]
                ELSE responses.list[j]])
    ELSE ReturnNone
\* What the call r returns for the responses of its broadcaster: broadcast()
\* itself, or the stub that called it.
CallResult(r, responses) ==
    IF r.stub = NoStub THEN broadcast_result(responses)
    ELSE wrapper_result(r.stub, r.expect, broadcast_result(responses))

\* ------------------------------------------------- broadcasters (section 4)

\* subscribe: a channel that already has a handler keeps it.
\* Mutation: the later handler replaces the registered one.
BSubscribe_overwrite(s, c, h) == [s EXCEPT ![c] = h]
BSubscribe(s, c, h) == IF s[c] # NoHandler THEN s ELSE [s EXCEPT ![c] = h]
\* unsubscribe: the registration is removed.
BUnsubscribe(s, c) == [s EXCEPT ![c] = NoHandler]
\* copy_local_subscriptions: every channel of the other map is subscribed.
BCopy(s, other) ==
    [c \in AllChannels |-> IF other[c] # NoHandler THEN BSubscribe(s, c, other[c])[c] ELSE s[c]]
\* The handler h is called with the parameters of the call r: a subscribed
\* callback with those of broadcast(), the adapter of a decorated function with
\* the serialized keyword arguments.
Invoke(h, r) == IF h \in Funcs THEN subscribe_func(h, r.wire) ELSE Apply(h, r.param)
HandlerRaises(h, r) == h \in Funcs /\ subscribe_func(h, r.wire).kind = "raise"
\* Local broadcast: one response when the channel has a handler, none otherwise;
\* the list only when answers are expected.
LocalResponses(h, r) == IF h # NoHandler THEN <<Dict(add_host_info(Invoke(h, r)))>> ELSE <<>>
BAnswers(responses, expect) ==
    IF expect THEN [isNone |-> FALSE, list |-> responses] ELSE [isNone |-> TRUE, list |-> <<>>]
\* Networked fan-in: the answers received, then None for each one still expected.
Missing(k) == [j \in 1..k |-> NoneResponse]
\* Mutation: on timeout the answers are returned as they are, without a None
\* for those that did not come.
RedisResponses_unpadded(replies, n) == replies
RedisResponses(replies, n) ==
    IF Len(replies) >= n THEN replies ELSE replies \o Missing(n - Len(replies))

\* Networked fan-in stops waiting once as many answers as expected arrived.
\* Mutation: it waits for one answer more than expected.
FanInDone_one_more(replies, n) == Len(replies) > n
FanInDone(replies, n) == Len(replies) >= n

\* Mutation: line 53 is missing.
startup_copy_skipped(s, prev) == s
\* startup(), line 53: _broadcaster.copy_local_subscriptions(prev_broadcaster).
startup_copy_subscriptions(s, prev) == BCopy(s, prev)

LiveRedis == _broadcaster # 0 /\ kind[_broadcaster] = "Redis"
\* The processes whose message loop receives a message published on c: those
\* subscribed to c when it is published.
Recipients(b, k, subs, c) ==
    (IF b # 0 /\ k[b] = "Redis" /\ subs[b][c] # NoHandler THEN {Self} ELSE {})
    \cup {p \in Remote : fleet[p].alive /\ c \in fleet[p].channels}
\* A liveness entry expires when its process no longer refreshes it.
\* Mutation: the entries of live processes expire too.
Expires_any(alive) == TRUE
Expires(alive) == ~alive
\* The message loop after a handler raised: the failure is logged and the loop
\* goes on with the next message.
LoopAfterRaise == "running"
\* The handler the message loop of p finds for c when a message arrives.
HandlerAt(p, c) ==
    IF p = Self
    THEN IF LiveRedis THEN subscribers[_broadcaster][c] ELSE NoHandler
    ELSE IF fleet[p].alive /\ c \in fleet[p].channels THEN RemoteHandler ELSE NoHandler
\* The reply p publishes for the handler's result.
Reply(p, result) ==
    IF p = Self THEN Dict(add_host_info(result)) ELSE Dict(RemoteInfo(p, result))

\* A broadcast of the Networked broadcaster that expects answers, as the store
\* sees it: reply, the reply channel it names in its request; req, its
\* correlation identifier; listening, the originator is subscribed to the reply
\* channel; published, the request is published; n, the answers expected; got,
\* the Envelopes received on the reply channel.
NoRequest ==
    [pc |-> "idle", chan |-> "", reply |-> 0, req |-> 0, listening |-> FALSE,
     published |-> FALSE, n |-> 0, got |-> <<>>, timedout |-> FALSE]
\* requests: the request messages published and not yet handled, one for each
\* process subscribed to the channel; lost: the Envelopes published on a reply
\* channel nobody was subscribed to; nextId: the correlation identifiers used.
NoTraffic == [call |-> [t \in 1..NTasks |-> NoRequest], requests |-> {}, lost |-> {}, nextId |-> 1]
\* Mutation: every request names the same reply channel.
ReplyChannel_shared(id) == 1
\* The name of the reply channel of the request id: fresh for each request.
ReplyChannel(id) == id
\* Mutation: the request is published first, the reply channel subscribed after.
ListensBeforePublish_late == FALSE
\* The originator subscribes to the reply channel before it publishes.
ListensBeforePublish == TRUE

\* ------------------------------------------------------------------- state

Init ==
    /\ _broadcaster = 0
    /\ calls = 0
    /\ kind = [i \in Insts |-> "free"]
    /\ inited = [i \in Insts |-> FALSE]
    /\ subscribers = [i \in Insts |-> NoSubscribers]
    /\ registry = [c \in AllChannels |-> {}]
    /\ reachable \in BOOLEAN
    /\ task = [t \in Tasks |-> IdleTask]
    /\ done = Returned(IdleTask, ReturnNone, FALSE, FALSE)
    /\ unsubscribed = [c \in AllChannels |-> FALSE]
    /\ cleared = [c \in AllChannels |-> FALSE]
    /\ stubs = {}
    /\ net = NoTraffic
    /\ fleet = [p \in Remote |-> [alive |-> TRUE, channels |-> {}]]
    /\ loop = [p \in Procs |-> "running"]

\* A coroutine is free for a new call when it is in none, or when the message of
\* the Networked broadcast it returned from has been received.  A call is
\* started by the lowest free coroutine (free coroutines are interchangeable),
\* while the run's budget of calls lasts.
Free(t) == task[t].pc = "idle" \/ (task[t].pc = "sent" /\ task[t].pending = {})
Ready(t) ==
    /\ Free(t)
    /\ calls < MaxCalls
    /\ \A u \in Tasks : u < t => ~Free(u)
CanGet == _broadcaster # 0 \/ CanConstruct

\* kind after _get(): the instance it constructs is a LocalBroadcaster.
KindAfterGet(g) == IF g.constructed THEN [kind EXCEPT ![g.ret] = "Local"] ELSE kind

\* await _get().subscribe(channel, callback)
subscribe(t, c, h) ==
    /\ calls' = calls + 1
    /\ Ready(t) /\ CanGet
    /\ LET g == _get(_broadcaster, Fresh)
           i == g.ret
           k == KindAfterGet(g)
           call == [IdleTask EXCEPT !.op = "subscribe", !.inst = i, !.chan = c, !.cb = h,
                                    !.pre = subscribers[i][c], !.ready = inited[i]]
       IN /\ _broadcaster' = g.broadcaster
          /\ kind' = k
          /\ subscribers' = [subscribers EXCEPT ![i] = BSubscribe(@, c, h)]
          /\ registry' = IF k[i] = "Redis" /\ subscribers[i][c] = NoHandler
                         THEN [registry EXCEPT ![c] = @ \cup {Self}]
                         ELSE registry
          /\ done' = Returned(call, ReturnNone, FALSE, FALSE)
          /\ unsubscribed' = [unsubscribed EXCEPT ![c] = FALSE]
          /\ cleared' = [cleared EXCEPT ![c] = FALSE]
          /\ task' = [u \in Tasks |->
                IF u = t THEN IdleTask
                ELSE IF task[u].op = "startup"
                THEN [task[u] EXCEPT !.touched = @ \cup {c}]
                ELSE task[u]]
    /\ UNCHANGED <<inited, reachable, fleet, loop, stubs, net>>

\* await _get().unsubscribe(channel)
unsubscribe(t, c) ==
    /\ calls' = calls + 1
    /\ Ready(t) /\ CanGet
    /\ LET g == _get(_broadcaster, Fresh)
           i == g.ret
           k == KindAfterGet(g)
           call == [IdleTask EXCEPT !.op = "unsubscribe", !.inst = i, !.chan = c,
                                    !.pre = subscribers[i][c], !.ready = inited[i]]
       IN /\ _broadcaster' = g.broadcaster
          /\ kind' = k
          /\ subscribers' = [subscribers EXCEPT ![i] = BUnsubscribe(@, c)]
          /\ registry' = IF k[i] = "Redis" /\ subscribers[i][c] # NoHandler
                         THEN [registry EXCEPT ![c] = @ \ {Self}]
                         ELSE registry
          /\ done' = Returned(call, ReturnNone, FALSE, FALSE)
          /\ unsubscribed' = [unsubscribed EXCEPT ![c] = TRUE]
          /\ cleared' = cleared
          /\ task' = [task EXCEPT ![t] = IdleTask]
    /\ UNCHANGED <<inited, reachable, fleet, loop, stubs, net>>

\* responses = await _get(need_init=True).broadcast(channel, params, expect_answers, timeout)
\* A Local broadcaster calls the handler, which may suspend; a Networked one
\* snapshots the expected count and publishes the message.
do_broadcast(t, c, e, call0) ==
    /\ calls' = calls + 1
    /\ Ready(t) /\ CanGet
    /\ LET g == _get(_broadcaster, Fresh)
           i == g.ret
           k == KindAfterGet(g)
           h == subscribers[i][c]
           counted == IF e THEN registry[c] ELSE {}
           n == Cardinality(counted)
           to == Recipients(g.broadcaster, k, subscribers, c)
           call == [call0 EXCEPT !.inst = i, !.chan = c,
                                    !.expect = e, !.pre = h, !.afterUnsub = unsubscribed[c],
                                    !.afterCleanup = cleared[c],
                                    !.recovered = done.raisedAt \cup
                                                  UNION {task[u].raisedAt : u \in Tasks},
                                    !.ready = inited[i]]
       IN /\ _broadcaster' = g.broadcaster
          /\ kind' = k
          /\ IF k[i] = "Local"
             THEN IF h # NoHandler
                  THEN /\ task' = [task EXCEPT ![t] =
                                     [call EXCEPT !.pc = "handler", !.ncalls = 1, !.invoked = h,
                                                  !.got = IF h \in Funcs
                                                          THEN _deserialize_kwargs(call0.wire, h)
                                                          ELSE @]]
                       /\ done' = done
                  ELSE /\ task' = [task EXCEPT ![t] = IdleTask]
                       /\ done' = Returned(call,
                                     CallResult(call, BAnswers(LocalResponses(h, call), e)),
                                     FALSE, FALSE)
             ELSE IF e /\ n > 0
                  THEN /\ task' = [task EXCEPT ![t] =
                                     [call EXCEPT !.pc = "collect", !.n = n, !.pending = to,
                                                  !.counted = counted]]
                       /\ done' = done
                  ELSE /\ task' = [task EXCEPT ![t] =
                                     IF to = {} THEN IdleTask
                                     ELSE [call EXCEPT !.pc = "sent", !.pending = to]]
                       /\ done' = Returned(call,
                                     CallResult(call, BAnswers(RedisResponses(<<>>, 0), e)),
                                     FALSE, FALSE)
    /\ UNCHANGED <<inited, subscribers, registry, reachable, unsubscribed, fleet, loop, stubs, cleared, net>>

\* broadcast(channel, params, expect_answers, timeout)
broadcast(t, c, v, e) ==
    do_broadcast(t, c, e, [IdleTask EXCEPT !.op = "broadcast", !.param = v])

\* Mutation: without the assert of line 221 the positional arguments are
\* dropped and the keyword arguments broadcast.
wrapper_no_assert(t, st, args, a) ==
    /\ st \in stubs
    /\ do_broadcast(t, st.chan, st.expect,
                    [IdleTask EXCEPT !.op = "stub", !.stub = st.func, !.kwargs = a,
                                     !.positional = args,
                                     !.wire = _serialize_params(a)])
\* decorate.wrapper: the stub st called with the keyword argument a, and with
\* positional arguments when args is true.  The assert of line 221 comes first;
\* then the keyword arguments are serialized and broadcast() is awaited.
wrapper(t, st, args, a) ==
    /\ st \in stubs
    /\ IF args
       THEN /\ calls' = calls + 1
            /\ Ready(t)
            /\ done' = Returned([IdleTask EXCEPT !.op = "stub", !.stub = st.func,
                                                 !.chan = st.chan, !.expect = st.expect,
                                                 !.inst = _broadcaster,
                                                 !.kwargs = a, !.positional = TRUE],
                                ReturnNone, FALSE, TRUE)
            /\ UNCHANGED <<_broadcaster, kind, inited, subscribers, registry, reachable, task,
                           unsubscribed, fleet, loop, stubs, cleared, net>>
       ELSE do_broadcast(t, st.chan, st.expect,
                         [IdleTask EXCEPT !.op = "stub", !.stub = st.func, !.kwargs = a,
                                          !.positional = args,
                                          !.wire = _serialize_params(a)])

\* decorate(func, channel, expect_answers): the adapter of func is subscribed
\* to the channel (line 263) and the stub is returned.
decorate(t, f, channel, e) ==
    /\ calls' = calls + 1
    /\ Ready(t) /\ CanGet
    /\ LET c == _channel(f, channel)
           g == _get(_broadcaster, Fresh)
           i == g.ret
           k == KindAfterGet(g)
           call == [IdleTask EXCEPT !.op = "decorate", !.inst = i, !.chan = c, !.cb = f,
                                    !.stub = f, !.expect = e,
                                    !.pre = subscribers[i][c], !.ready = inited[i]]
       IN /\ _broadcaster' = g.broadcaster
          /\ kind' = k
          /\ subscribers' = [subscribers EXCEPT ![i] = BSubscribe(@, c, f)]
          /\ registry' = IF k[i] = "Redis" /\ subscribers[i][c] = NoHandler
                         THEN [registry EXCEPT ![c] = @ \cup {Self}]
                         ELSE registry
          /\ done' = Returned(call, ReturnNone, FALSE, FALSE)
          /\ unsubscribed' = [unsubscribed EXCEPT ![c] = FALSE]
          /\ cleared' = [cleared EXCEPT ![c] = FALSE]
          /\ stubs' = stubs \cup {[func |-> f, chan |-> c, expect |-> e]}
          /\ task' = [u \in Tasks |->
                IF u = t THEN IdleTask
                ELSE IF task[u].op = "startup"
                THEN [task[u] EXCEPT !.touched = @ \cup {c}]
                ELSE task[u]]
    /\ UNCHANGED <<inited, reachable, fleet, loop, net>>

\* The handler called by a Local broadcast returns: its result is wrapped and
\* broadcast() returns; an exception of the handler leaves broadcast().
handler_return(t) ==
    /\ calls' = calls
    /\ task[t].pc = "handler"
    /\ done' = IF HandlerRaises(task[t].invoked, task[t])
               THEN Returned(task[t], ReturnNone, FALSE, TRUE)
               ELSE Returned(task[t],
                        CallResult(task[t],
                            BAnswers(LocalResponses(task[t].invoked, task[t]), task[t].expect)),
                        FALSE, FALSE)
    /\ task' = [task EXCEPT ![t] = IdleTask]
    /\ UNCHANGED <<_broadcaster, kind, inited, subscribers, registry, reachable, unsubscribed, fleet, loop, stubs, cleared, net>>

\* The message loop of process p receives the message of task t's broadcast:
\* its Networked broadcaster runs its handler for the channel and, when a
\* reply channel was given and is still listened to, publishes the answer.
receive(t, p) ==
    /\ calls' = calls
    /\ p \in task[t].pending
    /\ loop[p] # "stopped"
    /\ (p = Self /\ LiveRedis) => inited[_broadcaster]
    /\ ~HandlerRaises(HandlerAt(p, task[t].chan), task[t])
    /\ LET r == task[t]
           h == HandlerAt(p, r.chan)
           left == r.pending \ {p}
           mine == IF p = Self THEN 1 ELSE 0
       IN task' = [task EXCEPT ![t] =
            IF h = NoHandler
            THEN [r EXCEPT !.pending = left]
            ELSE [r EXCEPT !.pending = left, !.ncalls = @ + mine,
                           !.invoked = IF p = Self THEN h ELSE @,
                           !.got = IF h \in Funcs THEN _deserialize_kwargs(r.wire, h) ELSE @,
                           !.replies = IF r.pc = "collect"
                                       THEN Append(@, Reply(p, Invoke(h, r)))
                                       ELSE @,
                           !.answered = IF r.pc = "collect" THEN @ \cup {p} ELSE @]]
    /\ UNCHANGED <<_broadcaster, kind, inited, subscribers, registry, reachable, done,
                   unsubscribed, fleet, loop, stubs, cleared, net>>

\* The handler p runs for the message raises: the message loop logs it and goes
\* on, and nothing is published on the reply channel.
handler_fails(t, p) ==
    /\ calls' = calls
    /\ p \in task[t].pending
    /\ (p = Self /\ LiveRedis) => inited[_broadcaster]
    /\ HandlerAt(p, task[t].chan) # NoHandler
    /\ loop[p] # "stopped"
    /\ loop' = [loop EXCEPT ![p] = LoopAfterRaise]
    /\ task' = [task EXCEPT ![t].pending = @ \ {p},
                            ![t].ncalls = @ + (IF p = Self THEN 1 ELSE 0),
                            ![t].invoked = IF p = Self THEN HandlerAt(p, task[t].chan) ELSE @,
                            ![t].raisedAt = @ \cup {p}]
    /\ UNCHANGED <<_broadcaster, kind, inited, subscribers, registry, reachable, done,
                   unsubscribed, fleet, stubs, cleared, net>>

\* The worker p subscribes its handler to c and enters the liveness registry of c.
remote_subscribe(p, c) ==
    /\ calls' = calls
    /\ fleet[p].alive /\ c \notin fleet[p].channels
    /\ fleet' = [fleet EXCEPT ![p].channels = @ \cup {c}]
    /\ registry' = [registry EXCEPT ![c] = @ \cup {p}]
    /\ UNCHANGED <<_broadcaster, kind, inited, subscribers, reachable, task, done,
                   unsubscribed, loop, stubs, cleared, net>>

\* The worker p unsubscribes from c and leaves the liveness registry of c.
remote_unsubscribe(p, c) ==
    /\ calls' = calls
    /\ fleet[p].alive /\ c \in fleet[p].channels
    /\ fleet' = [fleet EXCEPT ![p].channels = @ \ {c}]
    /\ registry' = [registry EXCEPT ![c] = @ \ {p}]
    /\ UNCHANGED <<_broadcaster, kind, inited, subscribers, reachable, task, done,
                   unsubscribed, loop, stubs, cleared, net>>

\* The worker p dies without unsubscribing: its entries stay in the registry
\* (channels keeps what it was subscribed to when it died).
crash(p) ==
    /\ calls' = calls
    /\ fleet[p].alive
    /\ fleet' = [fleet EXCEPT ![p].alive = FALSE]
    /\ UNCHANGED <<_broadcaster, kind, inited, subscribers, registry, reachable, task, done,
                   unsubscribed, loop, stubs, cleared, net>>

\* The liveness entry of a dead worker, no longer refreshed, expires.
expire(p, c) ==
    /\ calls' = calls
    /\ Expires(fleet[p].alive)
    /\ p \in registry[c]
    /\ registry' = [registry EXCEPT ![c] = @ \ {p}]
    /\ UNCHANGED <<_broadcaster, kind, inited, subscribers, reachable, task, done,
                   unsubscribed, fleet, loop, stubs, cleared, net>>

\* After the return of a Networked broadcast, the coroutine is free once the
\* message has been received.
AfterReturn(r) == IF r.pending = {} THEN IdleTask ELSE [r EXCEPT !.pc = "sent"]

\* Fan-in ends: every expected answer arrived.
collect(t) ==
    /\ calls' = calls
    /\ task[t].pc = "collect"
    /\ FanInDone(task[t].replies, task[t].n)
    /\ done' = Returned(task[t],
                   CallResult(task[t],
                       BAnswers(RedisResponses(task[t].replies, task[t].n), TRUE)),
                   FALSE, FALSE)
    /\ task' = [task EXCEPT ![t] = AfterReturn(@)]
    /\ UNCHANGED <<_broadcaster, kind, inited, subscribers, registry, reachable, unsubscribed, fleet, loop, stubs, cleared, net>>

\* Fan-in ends: the timeout elapsed first.
timeout(t) ==
    /\ calls' = calls
    /\ task[t].pc = "collect"
    /\ ~FanInDone(task[t].replies, task[t].n)
    /\ done' = Returned(task[t],
                   CallResult(task[t],
                       BAnswers(RedisResponses(task[t].replies, task[t].n), TRUE)),
                   TRUE, FALSE)
    /\ task' = [task EXCEPT ![t] = AfterReturn(@)]
    /\ UNCHANGED <<_broadcaster, kind, inited, subscribers, registry, reachable, unsubscribed, fleet, loop, stubs, cleared, net>>

\* startup(), up to its first await: the broadcaster is constructed and
\* assigned to the global, then init() is awaited.
startup(t) ==
    /\ calls' = calls + 1
    /\ Ready(t)
    /\ LET br == startup_branch(_broadcaster,
                                IF _broadcaster = 0 THEN "free" ELSE kind[_broadcaster],
                                reachable)
           call == [IdleTask EXCEPT !.op = "startup"]
       IN \/ /\ br \in {"new_redis", "new_local"}
             /\ CanConstruct
             /\ _broadcaster' = Fresh
             /\ kind' = [kind EXCEPT ![Fresh] = IF br = "new_redis" THEN "Redis" ELSE "Local"]
             /\ task' = [task EXCEPT ![t] = [call EXCEPT !.pc = "init", !.inst = Fresh]]
             /\ done' = done
          \/ /\ br = "migrate"
             /\ CanConstruct
             /\ _broadcaster' = Fresh
             /\ kind' = [kind EXCEPT ![Fresh] = "Redis"]
             /\ task' = [u \in Tasks |->
                   IF u = t
                   THEN [call EXCEPT !.pc = "mig_init", !.inst = Fresh, !.prev = _broadcaster]
                   ELSE IF task[u].pc = "handler" THEN [task[u] EXCEPT !.swapped = TRUE]
                   ELSE task[u]]
             /\ done' = done
          \/ /\ br = "noop"
             /\ done' = Returned([call EXCEPT !.inst = _broadcaster, !.target = _broadcaster],
                                  ReturnNone, FALSE, FALSE)
             /\ task' = [task EXCEPT ![t] = IdleTask]
             /\ UNCHANGED <<_broadcaster, kind, stubs, net>>
    /\ UNCHANGED <<inited, subscribers, registry, reachable, unsubscribed, fleet, loop, stubs, cleared, net>>

\* line 47: init() of the broadcaster constructed at line 42 or 45 completes.
startup_init(t) ==
    /\ calls' = calls
    /\ task[t].pc = "init"
    /\ inited' = [inited EXCEPT ![task[t].inst] = TRUE]
    /\ done' = Returned(task[t], ReturnNone, FALSE, FALSE)
    /\ task' = [task EXCEPT ![t] = IdleTask]
    /\ UNCHANGED <<_broadcaster, kind, subscribers, registry, reachable, unsubscribed, fleet, loop, stubs, cleared, net>>

\* line 52 completes; line 53 then reads the global again and awaits
\* copy_local_subscriptions on whatever it holds now.
startup_migrate_init(t) ==
    /\ calls' = calls
    /\ task[t].pc = "mig_init"
    /\ inited' = [inited EXCEPT ![task[t].inst] = TRUE]
    /\ IF _broadcaster = 0
       THEN /\ done' = Returned(task[t], ReturnNone, FALSE, TRUE)
            /\ task' = [task EXCEPT ![t] = IdleTask]
       ELSE /\ done' = done
            /\ task' = [task EXCEPT ![t].pc = "mig_copy", ![t].target = _broadcaster]
    /\ UNCHANGED <<_broadcaster, kind, subscribers, registry, reachable, unsubscribed, fleet, loop, stubs, cleared, net>>

\* lines 47 and 52: init() of the RedisBroadcaster raises (the store does not
\* answer).  startup() has no handler for it: the exception leaves startup()
\* and the global keeps the broadcaster assigned at line 42 or 51.
startup_init_fails(t) ==
    /\ calls' = calls
    /\ task[t].pc \in {"init", "mig_init"}
    /\ kind[task[t].inst] = "Redis"
    /\ done' = Returned([task[t] EXCEPT !.failed = TRUE, !.target = _broadcaster],
                        ReturnNone, FALSE, TRUE)
    /\ task' = [task EXCEPT ![t] = IdleTask]
    /\ UNCHANGED <<_broadcaster, kind, inited, subscribers, registry, reachable, unsubscribed, fleet, loop, stubs, cleared, net>>

\* line 53 completes: the subscriptions of prev_broadcaster are imported.
startup_copy(t) ==
    /\ calls' = calls
    /\ task[t].pc = "mig_copy"
    /\ LET i == task[t].target
           s == startup_copy_subscriptions(subscribers[i], subscribers[task[t].prev])
       IN /\ subscribers' = [subscribers EXCEPT ![i] = s]
          /\ registry' = [c \in AllChannels |->
                IF kind[i] = "Redis" /\ subscribers[i][c] = NoHandler /\ s[c] # NoHandler
                THEN registry[c] \cup {Self} ELSE registry[c]]
    /\ done' = Returned(task[t], ReturnNone, FALSE, FALSE)
    /\ task' = [task EXCEPT ![t] = IdleTask]
    /\ UNCHANGED <<_broadcaster, kind, inited, reachable, unsubscribed, fleet, loop, stubs, cleared, net>>

\* cleanup(): the global is set to None.
cleanup(t) ==
    /\ calls' = calls + 1
    /\ Ready(t)
    /\ _broadcaster' = 0
    /\ done' = Returned([IdleTask EXCEPT !.op = "cleanup"], ReturnNone, FALSE, FALSE)
    /\ task' = [u \in Tasks |->
          IF u = t THEN IdleTask
          ELSE IF task[u].op = "startup" THEN [task[u] EXCEPT !.cleaned = TRUE]
          ELSE task[u]]
    /\ cleared' = [c \in AllChannels |->
          cleared[c] \/ (_broadcaster # 0 /\ subscribers[_broadcaster][c] # NoHandler)]
    /\ UNCHANGED <<kind, inited, subscribers, registry, reachable, unsubscribed, fleet, loop, stubs, net>>

\* The networked store becomes reachable or unreachable.
set_reachable ==
    /\ calls' = calls
    /\ reachable' = ~reachable
    /\ UNCHANGED <<_broadcaster, kind, inited, subscribers, registry, task, done, unsubscribed, fleet, loop, stubs, cleared, net>>

Next ==
    \/ \E t \in Tasks, c \in Channels, h \in Handlers : subscribe(t, c, h)
    \/ \E t \in Tasks, c \in Channels : unsubscribe(t, c)
    \/ \E t \in Tasks, c \in Channels, v \in Params, e \in BOOLEAN : broadcast(t, c, v, e)
    \/ \E t \in Tasks : handler_return(t)
    \/ \E t \in Tasks, p \in Procs : receive(t, p)
    \/ \E t \in Tasks : collect(t)
    \/ \E t \in Tasks : timeout(t)
    \/ \E t \in Tasks : startup(t)
    \/ \E t \in Tasks : startup_init(t)
    \/ \E t \in Tasks : startup_migrate_init(t)
    \/ \E t \in Tasks : startup_init_fails(t)
    \/ \E t \in Tasks : startup_copy(t)
    \/ \E t \in Tasks : cleanup(t)
    \/ set_reachable

Spec == Init /\ [][Next]_vars

\* The process after a startup() that found the store reachable (lines 40-47):
\* the Networked broadcaster it constructed is active and initialized.
StartedInit ==
    /\ _broadcaster = 1
    /\ calls = 0
    /\ kind = [i \in Insts |-> IF i = 1 THEN "Redis" ELSE "free"]
    /\ inited = [i \in Insts |-> i = 1]
    /\ subscribers = [i \in Insts |-> NoSubscribers]
    /\ registry = [c \in AllChannels |-> {}]
    /\ reachable = TRUE
    /\ task = [t \in Tasks |-> IdleTask]
    /\ done = Returned([IdleTask EXCEPT !.op = "startup", !.inst = 1], ReturnNone, FALSE, FALSE)
    /\ unsubscribed = [c \in AllChannels |-> FALSE]
    /\ cleared = [c \in AllChannels |-> FALSE]
    /\ stubs = {}
    /\ net = NoTraffic
    /\ fleet = [p \in Remote |-> [alive |-> TRUE, channels |-> {}]]
    /\ loop = [p \in Procs |-> "running"]

SpecStarted == StartedInit /\ [][Next]_vars

\* The process of test_decorator: after a startup() without networked store,
\* the Local broadcaster is active and initialized.
DecInit ==
    /\ _broadcaster = 1
    /\ calls = 0
    /\ kind = [i \in Insts |-> IF i = 1 THEN "Local" ELSE "free"]
    /\ inited = [i \in Insts |-> i = 1]
    /\ subscribers = [i \in Insts |-> NoSubscribers]
    /\ registry = [c \in AllChannels |-> {}]
    /\ reachable = FALSE
    /\ task = [t \in Tasks |-> IdleTask]
    /\ done = Returned([IdleTask EXCEPT !.op = "startup", !.inst = 1], ReturnNone, FALSE, FALSE)
    /\ unsubscribed = [c \in AllChannels |-> FALSE]
    /\ cleared = [c \in AllChannels |-> FALSE]
    /\ stubs = {}
    /\ net = NoTraffic
    /\ fleet = [p \in Remote |-> [alive |-> TRUE, channels |-> {}]]
    /\ loop = [p \in Procs |-> "running"]

\* The RPC decoration layer on the Local broadcaster.
DecNext ==
    \/ \E t \in Tasks, f \in Funcs, ch \in {NoChannel, "test3"}, e \in BOOLEAN :
          decorate(t, f, ch, e)
    \/ \E t \in Tasks, st \in stubs, args \in BOOLEAN, a \in Values : wrapper(t, st, args, a)
    \/ \E t \in Tasks : handler_return(t)
    \/ \E t \in Tasks, c \in DecChannels : unsubscribe(t, c)
    \/ \E t \in Tasks : cleanup(t)

DecSpec == DecInit /\ [][DecNext]_vars

\* ---------------------------------------------------- reply channels
\* The request of the call r, published to the processes subscribed to its
\* channel; n is the number of entries of the liveness registry.
Publish(r) ==
    [r EXCEPT !.published = TRUE,
              !.n = Cardinality(registry[r.chan])]
RequestsOf(r) ==
    {[to |-> p, chan |-> r.chan, reply |-> r.reply, req |-> r.req] :
        p \in Recipients(_broadcaster, kind, subscribers, r.chan)}

\* The Networked broadcast(c, expect_answers=True) of the coroutine t, up to
\* its first await: a correlation identifier and a reply channel are made, and
\* the reply channel is subscribed.
net_open(t, c) ==
    /\ calls' = calls
    /\ LiveRedis
    /\ net.call[t].pc \in {"idle", "done"}
    /\ net.nextId <= MaxReq
    /\ LET r == [NoRequest EXCEPT !.pc = "open", !.chan = c, !.req = net.nextId,
                                  !.reply = ReplyChannel(net.nextId)]
       IN IF ListensBeforePublish
          THEN net' = [net EXCEPT !.call[t] = [r EXCEPT !.listening = TRUE],
                                  !.nextId = @ + 1]
          ELSE net' = [net EXCEPT !.call[t] = Publish(r),
                                  !.requests = @ \cup RequestsOf(r),
                                  !.nextId = @ + 1]
    /\ UNCHANGED <<_broadcaster, kind, inited, subscribers, registry, reachable, task, done,
                   unsubscribed, fleet, loop, stubs, cleared>>

\* The second step: the request is published and the originator waits.
net_publish(t) ==
    /\ calls' = calls
    /\ net.call[t].pc = "open"
    /\ LET r == [net.call[t] EXCEPT !.pc = "collect"]
       IN IF ListensBeforePublish
          THEN net' = [net EXCEPT !.call[t] = Publish(r),
                                  !.requests = @ \cup RequestsOf(r)]
          ELSE net' = [net EXCEPT !.call[t] = [r EXCEPT !.listening = TRUE]]
    /\ UNCHANGED <<_broadcaster, kind, inited, subscribers, registry, reachable, task, done,
                   unsubscribed, fleet, loop, stubs, cleared>>

\* The message loop of the process m.to takes the request m: its handler runs
\* and the Envelope is published on the reply channel m names, where every
\* coroutine subscribed to that channel receives it.
net_answer(m) ==
    /\ calls' = calls
    /\ m \in net.requests
    /\ LET env == [from |-> m.to, req |-> m.req]
           listeners == {t \in Tasks : net.call[t].listening /\ net.call[t].reply = m.reply}
           waiting == \E t \in Tasks : net.call[t].req = m.req /\ net.call[t].pc # "done"
       IN IF HandlerAt(m.to, m.chan) = NoHandler
          THEN net' = [net EXCEPT !.requests = @ \ {m}]
          ELSE net' = [net EXCEPT
                         !.requests = @ \ {m},
                         !.call = [t \in Tasks |->
                            IF t \in listeners
                            THEN [net.call[t] EXCEPT !.got = Append(@, env)]
                            ELSE net.call[t]],
                         !.lost = IF listeners = {}
                                  THEN @ \cup {[from |-> m.to, req |-> m.req, early |-> waiting]}
                                  ELSE @]
    /\ UNCHANGED <<_broadcaster, kind, inited, subscribers, registry, reachable, task, done,
                   unsubscribed, fleet, loop, stubs, cleared>>

\* The expected number of Envelopes has arrived: the reply channel is
\* unsubscribed and the broadcast returns them.
net_collect(t) ==
    /\ calls' = calls
    /\ net.call[t].pc = "collect"
    /\ FanInDone(net.call[t].got, net.call[t].n)
    /\ net' = [net EXCEPT !.call[t] = [@ EXCEPT !.pc = "done", !.listening = FALSE]]
    /\ UNCHANGED <<_broadcaster, kind, inited, subscribers, registry, reachable, task, done,
                   unsubscribed, fleet, loop, stubs, cleared>>

\* The timeout elapses first.
net_timeout(t) ==
    /\ calls' = calls
    /\ net.call[t].pc = "collect"
    /\ ~FanInDone(net.call[t].got, net.call[t].n)
    /\ net' = [net EXCEPT !.call[t] = [@ EXCEPT !.pc = "done", !.listening = FALSE,
                                                !.timedout = TRUE]]
    /\ UNCHANGED <<_broadcaster, kind, inited, subscribers, registry, reachable, task, done,
                   unsubscribed, fleet, loop, stubs, cleared>>

\* The process after startup() selected the Networked broadcaster and
\* subscribe("test1", cb1) returned.
WireInit ==
    /\ _broadcaster = 1
    /\ calls = 0
    /\ kind = [i \in Insts |-> IF i = 1 THEN "Redis" ELSE "free"]
    /\ inited = [i \in Insts |-> i = 1]
    /\ subscribers = [i \in Insts |-> IF i = 1 THEN BSubscribe(NoSubscribers, "test1", "cb1")
                                                ELSE NoSubscribers]
    /\ registry = [c \in AllChannels |-> IF c = "test1" THEN {Self} ELSE {}]
    /\ reachable = TRUE
    /\ task = [t \in Tasks |-> IdleTask]
    /\ done = Returned([IdleTask EXCEPT !.op = "subscribe", !.inst = 1, !.chan = "test1",
                                        !.cb = "cb1", !.ready = TRUE],
                       ReturnNone, FALSE, FALSE)
    /\ unsubscribed = [c \in AllChannels |-> FALSE]
    /\ cleared = [c \in AllChannels |-> FALSE]
    /\ stubs = {}
    /\ net = NoTraffic
    /\ fleet = [p \in Remote |-> [alive |-> TRUE, channels |-> {}]]
    /\ loop = [p \in Procs |-> "running"]

WireChannels == {"test1", "test2"}
WireNext ==
    \/ \E p \in Remote, c \in WireChannels : remote_subscribe(p, c)
    \/ \E p \in Remote, c \in WireChannels : remote_unsubscribe(p, c)
    \/ \E t \in Tasks, c \in WireChannels : net_open(t, c)
    \/ \E t \in Tasks : net_publish(t)
    \/ \E m \in net.requests : net_answer(m)
    \/ \E t \in Tasks : net_collect(t)
    \/ \E t \in Tasks : net_timeout(t)

WireSpec == WireInit /\ [][WireNext]_vars

\* The whole Facade from the uninitialized state: the calls of Spec on one
\* channel, together with decorate() and the stubs it returns.
ColdChannels == {"test1", Derived("cb1_")}
ColdNext ==
    \/ \E t \in Tasks : subscribe(t, "test1", "cb1")
    \/ \E t \in Tasks, c \in ColdChannels : unsubscribe(t, c)
    \/ \E t \in Tasks, e \in BOOLEAN : broadcast(t, "test1", 0, e)
    \/ \E t \in Tasks, e \in BOOLEAN : decorate(t, "cb1_", NoChannel, e)
    \/ \E t \in Tasks, st \in stubs, args \in BOOLEAN : wrapper(t, st, args, Plain(12))
    \/ \E t \in Tasks : handler_return(t)
    \/ \E t \in Tasks, p \in Procs : receive(t, p)
    \/ \E t \in Tasks : collect(t)
    \/ \E t \in Tasks : timeout(t)
    \/ \E t \in Tasks : startup(t)
    \/ \E t \in Tasks : startup_init(t)
    \/ \E t \in Tasks : startup_migrate_init(t)
    \/ \E t \in Tasks : startup_init_fails(t)
    \/ \E t \in Tasks : startup_copy(t)
    \/ \E t \in Tasks : cleanup(t)
    \/ set_reachable

ColdSpec == Init /\ [][ColdNext]_vars

\* The Networked broadcaster of this process among the workers of the fleet,
\* on one channel.
NetChannels == {"test1"}
NetParams == {0}
NetHandlers == {"cb1"}
FleetNext ==
    \/ \E t \in Tasks, c \in NetChannels, h \in NetHandlers : subscribe(t, c, h)
    \/ \E t \in Tasks, c \in NetChannels : unsubscribe(t, c)
    \/ \E t \in Tasks, c \in NetChannels, v \in NetParams, e \in BOOLEAN : broadcast(t, c, v, e)
    \/ \E t \in Tasks, p \in Procs : receive(t, p)
    \/ \E t \in Tasks : collect(t)
    \/ \E t \in Tasks : timeout(t)
    \/ \E p \in Remote, c \in NetChannels : remote_subscribe(p, c)
    \/ \E p \in Remote, c \in NetChannels : remote_unsubscribe(p, c)
    \/ \E p \in Remote : crash(p)
    \/ \E p \in Remote, c \in NetChannels : expire(p, c)

\* The same, with handlers that may raise.
NetNext ==
    \/ FleetNext
    \/ \E t \in Tasks, p \in Procs : handler_fails(t, p)

NetSpec == StartedInit /\ [][NetNext]_vars

\* The event loop runs a coroutine whose wait is over, and the timer of a
\* broadcast fires.
NetFairSpec ==
    /\ StartedInit /\ [][FleetNext]_vars
    /\ \A t \in Tasks : WF_vars(collect(t)) /\ WF_vars(timeout(t))
    /\ \A p \in Remote, c \in Channels : WF_vars(expire(p, c))

\* ------------------------------------------------------------------ claims

\* The Envelope a handler's answer becomes.
Envelope(h, v) ==
    [tag |-> "BroadcastResponse", hostname |-> ThisHost, pid |-> ThisPid, payload |-> Apply(h, v)]
IsLocal(r) == kind[r.inst] = "Local"
IsRedis(r) == kind[r.inst] = "Redis"

\* C1: a broadcast with expect_answers=true served by the Local broadcaster on
\* a channel that has a handler returns a list of exactly one element, an
\* Envelope (not a MissingAnswer) whose payload is the handler's result for the
\* parameters, and the handler was invoked exactly once.
C1_LocalOneEnvelope ==
    (done.op = "broadcast" /\ done.expect /\ IsLocal(done) /\ done.pre # NoHandler)
    => /\ ~done.ret.isNone
       /\ Len(done.ret.list) = 1
       /\ done.ret.list[1].tag = "BroadcastResponse"
       /\ done.ret.list[1] # MissingAnswer
       /\ done.ret.list[1].payload = Apply(done.pre, done.param)
       /\ done.ncalls = 1
       /\ done.invoked = done.pre
       /\ ~done.raised
C1_Witness ==
    /\ done.op = "broadcast" /\ done.expect /\ IsLocal(done)
    /\ done.pre = "cb1" /\ done.param = 1
    /\ done.ret = ReturnList(<<Envelope("cb1", 1)>>)
    /\ done.ncalls = 1

\* C2: a broadcast with expect_answers=true on a channel without subscriber
\* (no handler in the broadcaster and, for the Networked one, no entry in the
\* liveness registry) returns the empty list, not None, raises nothing and
\* invokes no handler.
C2_NoSubscriberEmptyList ==
    (done.op = "broadcast" /\ done.expect /\ done.pre = NoHandler
        /\ (IsRedis(done) => done.n = 0))
    => /\ done.ret = ReturnList(<<>>)
       /\ ~done.raised
       /\ done.ncalls = 0
       /\ done.invoked = NoHandler
C2_Witness ==
    /\ done.op = "broadcast" /\ done.expect /\ done.pre = NoHandler
    /\ done.ret = ReturnList(<<>>)
    /\ \E c \in Channels : c # done.chan /\ subscribers[done.inst][c] # NoHandler

C4_UnsubscribedNotInvoked ==
    /\ (done.op = "broadcast" /\ done.afterUnsub)
       => /\ done.ncalls = 0
          /\ (IsLocal(done) /\ done.expect) => done.ret = ReturnList(<<>>)
    /\ \A t \in Tasks : (task[t].op = "broadcast" /\ task[t].afterUnsub) => task[t].ncalls = 0
    /\ done.op = "unsubscribe" => subscribers[done.inst][done.chan] = NoHandler

C6_MigrationKeepsSubscriptions ==
    /\ (done.op = "startup" /\ done.prev # 0 /\ ~done.cleaned /\ ~done.failed)
       => /\ ~done.raised
          /\ _broadcaster = done.inst
          /\ IsRedis(done)
          /\ inited[done.inst]
          /\ \A c \in Channels :
                (subscribers[done.prev][c] # NoHandler /\ c \notin done.touched)
                => /\ subscribers[done.inst][c] = subscribers[done.prev][c]
                   /\ Self \in registry[c]
    /\ (done.op = "broadcast" /\ IsRedis(done) /\ done.expect /\ done.n > 0 /\ ~done.timedout)
       => /\ Len(done.ret.list) = done.n
          /\ done.ncalls = 1
          /\ done.ret.list[1] = Envelope(done.invoked, done.param)
C6_Witness ==
    /\ done.op = "broadcast" /\ IsRedis(done) /\ done.expect /\ ~done.timedout
    /\ done.chan = "test1" /\ done.param = 1
    /\ done.ret = ReturnList(<<Envelope("cb1", 1)>>)
    /\ kind[1] = "Local" /\ subscribers[1]["test1"] = "cb1"
    /\ done.inst = 2
    /\ calls = 3

\* The call a step starts: the record of the coroutine it suspends, or of the
\* call that returned at once.
Suspends(t) == Free(t) /\ task'[t].pc \in {"handler", "collect", "init", "mig_init"}
StartedOp == IF \E t \in Tasks : Suspends(t)
             THEN task'[CHOOSE t \in Tasks : Suspends(t)].op ELSE done'.op
StartedInst == IF \E t \in Tasks : Suspends(t)
               THEN task'[CHOOSE t \in Tasks : Suspends(t)].inst ELSE done'.inst
Starts(op) == calls' = calls + 1 /\ StartedOp = op

\* The kind of the active broadcaster.
ActiveKind(b, k) == IF b = 0 THEN "none" ELSE k[b]
CleanupStep == Starts("cleanup")

\* C7: the active broadcaster only goes from none to Local or Networked, from
\* Local to Networked, or (by cleanup() alone) to none; a Networked one stays
\* the same instance until cleanup(), whatever the store's reachability.
C7_OneWayUpgrade ==
    [][LET a == ActiveKind(_broadcaster, kind)
           b == ActiveKind(_broadcaster', kind')
       IN /\ \/ _broadcaster' = _broadcaster /\ a = b
             \/ a = "none" /\ b \in {"Local", "Redis"}
             \/ a = "Local" /\ b = "Redis"
             \/ b = "none" /\ CleanupStep
          /\ a = "Redis" => (_broadcaster' = _broadcaster \/ CleanupStep)]_vars
C7_Witness ==
    /\ LiveRedis /\ ~reachable
    /\ done.op = "startup" /\ done.prev = 0 /\ done.target = _broadcaster

\* C8: no subscribe, unsubscribe or broadcast of the Facade runs on a
\* broadcaster whose init() has not completed.
C8_NeverUninitialized ==
    /\ done.op \in {"subscribe", "unsubscribe", "broadcast"} => done.ready
    /\ \A t \in Tasks : task[t].op = "broadcast" => task[t].ready

\* C9: startup() called while the active broadcaster is Networked returns at
\* once and changes neither the active reference, nor the instances (none is
\* constructed or initialized), nor any registration.
C9_StartupNoopWhenNetworked ==
    [][(Starts("startup") /\ LiveRedis)
       => /\ done'.op = "startup"
          /\ ~done'.raised
          /\ \A t \in Tasks : ~Suspends(t)
          /\ UNCHANGED <<_broadcaster, kind, inited, subscribers, registry, stubs, net>>]_vars
C9_Witness ==
    /\ LiveRedis /\ reachable
    /\ done.op = "startup" /\ done.prev = 0 /\ done.target = _broadcaster
    /\ \E c \in Channels : subscribers[_broadcaster][c] # NoHandler

\* C10: a subscribe, unsubscribe or broadcast called while there is no active
\* broadcaster constructs a Local one, stores it as the active one and runs on
\* it; called while there is one, it runs on that one and leaves it active;
\* none raises; and a broadcast with expect_answers=true on a broadcaster that
\* was never initialized returns the one Envelope of the subscribed handler.
C10_AutoConstructLocal ==
    /\ [][(Starts("subscribe") \/ Starts("unsubscribe") \/ Starts("broadcast"))
          => IF _broadcaster = 0
             THEN /\ _broadcaster' # 0
                  /\ kind[_broadcaster'] = "free"
                  /\ kind'[_broadcaster'] = "Local"
                  /\ StartedInst = _broadcaster'
             ELSE /\ _broadcaster' = _broadcaster
                  /\ kind' = kind
                  /\ StartedInst = _broadcaster]_vars
    /\ [](done.op \in {"subscribe", "unsubscribe", "broadcast"} => ~done.raised)
    /\ []((done.op = "broadcast" /\ done.expect /\ IsLocal(done) /\ ~done.ready
              /\ done.pre # NoHandler)
          => done.ret = ReturnList(<<Envelope(done.pre, done.param)>>))
C10_Witness ==
    /\ done.op = "broadcast" /\ done.expect /\ IsLocal(done) /\ ~done.ready
    /\ done.pre = "cb1" /\ done.param = 1
    /\ done.ret = ReturnList(<<Envelope("cb1", 1)>>)
    /\ \A i \in Insts : ~inited[i]
    /\ NumInst = 1
\* C11: a startup() in which init() of the Networked broadcaster failed
\* returns without raising and leaves a Local broadcaster, initialized, as the
\* active one.
C11_InitFailureFallsBackToLocal ==
    (done.op = "startup" /\ done.failed /\ ~done.cleaned)
    => /\ ~done.raised
       /\ done.target # 0
       /\ kind[done.target] = "Local"
       /\ inited[done.target]
\* C12: cleanup() leaves no active broadcaster, whatever the state; the
\* broadcaster that becomes active next is a newly constructed instance that
\* holds no subscription; and a broadcast with expect_answers=true on a channel
\* that was subscribed when cleanup() ran and was not subscribed since invokes
\* no handler and returns [].
C12_CleanupResets ==
    [][/\ CleanupStep => _broadcaster' = 0
       /\ (_broadcaster = 0 /\ _broadcaster' # 0)
          => /\ kind[_broadcaster'] = "free"
             /\ subscribers[_broadcaster'] = NoSubscribers
       /\ (done'.op = "broadcast" /\ done'.afterCleanup /\ done'.expect)
          => (done'.ret = ReturnList(<<>>) /\ done'.ncalls = 0)]_vars
\* The entries of a returned list that carry the given tag.
NumTag(list, tag) == Cardinality({j \in 1..Len(list) : list[j].tag = tag})
NetExpect(r) == r.op = "broadcast" /\ IsRedis(r) /\ r.expect

\* C13: a Networked broadcast with expect_answers=true returns a list with as
\* many entries as the liveness registry of the channel held when it was
\* issued: the Envelopes, one per answer collected, plus the MissingAnswer
\* entries make that count, whether the call ended on the last answer or on
\* the timeout.
C13_LengthIsSnapshot ==
    NetExpect(done)
    => /\ ~done.ret.isNone
       /\ Len(done.ret.list) = Cardinality(done.counted)
       /\ NumTag(done.ret.list, "BroadcastResponse") + NumTag(done.ret.list, "MissingAnswer")
            = Cardinality(done.counted)
       /\ NumTag(done.ret.list, "BroadcastResponse") = Cardinality(done.answered)
       /\ done.answered \subseteq done.counted
       /\ ~done.timedout => NumTag(done.ret.list, "MissingAnswer") = 0
C13_Witness ==
    /\ NetExpect(done) /\ done.timedout
    /\ done.counted = {Self, "Q"} /\ done.answered = {"Q"}
    /\ Len(done.ret.list) = 2
    /\ done.ret.list[1].tag = "BroadcastResponse" /\ done.ret.list[1].hostname = "Q"
    /\ done.ret.list[2] = MissingAnswer
\* C14: a Networked broadcast with expect_answers=true that waits for answers
\* eventually returns; once as many answers as expected are collected its next
\* step is its return, without timeout, with all of them; it never holds more
\* answers than expected; and a return on timeout carries the answers
\* collected so far, fewer than expected.
C14_EventuallyReturns ==
    /\ \A t \in Tasks : (task[t].pc = "collect") ~> (task[t].pc # "collect")
    /\ [][\A t \in Tasks :
            (task[t].pc = "collect" /\ Len(task[t].replies) >= task[t].n)
            => IF task'[t].pc = "collect"
               THEN task'[t] = task[t]
               ELSE /\ NetExpect(done') /\ ~done'.timedout
                    /\ NumTag(done'.ret.list, "BroadcastResponse") = task[t].n]_vars
    /\ [](\A t \in Tasks : task[t].pc = "collect" => Len(task[t].replies) <= task[t].n)
    /\ []((NetExpect(done) /\ done.timedout)
           => /\ Cardinality(done.answered) < Cardinality(done.counted)
              /\ NumTag(done.ret.list, "BroadcastResponse") = Cardinality(done.answered))
C14_Witness ==
    /\ NetExpect(done) /\ ~done.timedout
    /\ done.counted = {Self, "Q"} /\ done.answered = {Self, "Q"}
    /\ NumTag(done.ret.list, "BroadcastResponse") = 2
    /\ \E t \in Tasks : task[t].pc = "collect" /\ task[t].answered = {}
\* The host an Envelope of process p names.
HostOf(p) == IF p = Self THEN ThisHost ELSE p
RaiseStep ==
    \E t \in Tasks : task[t].raisedAt \subseteq task'[t].raisedAt
                      /\ task'[t].raisedAt # task[t].raisedAt

\* C15: a handler that raises on a message received over the network leaves
\* the message loop of its process running; the step changes neither what a
\* returned call returned nor any subscription or liveness entry; a broadcast
\* with expect_answers=true holds no Envelope of a process whose handler raised
\* for it and at least one MissingAnswer per such process; and a broadcast with
\* expect_answers=false returned None without raising.
C15_HandlerFailureIsMissingAnswer ==
    /\ [](\A p \in Procs : loop[p] = "running")
    /\ [][RaiseStep
          => /\ done' = done
             /\ UNCHANGED <<_broadcaster, subscribers, registry, fleet, loop, stubs, net>>]_vars
    /\ [](NetExpect(done)
          => /\ \A p \in done.raisedAt :
                   /\ p \notin done.answered
                   /\ \A j \in 1..Len(done.ret.list) :
                         done.ret.list[j].tag = "BroadcastResponse"
                         => done.ret.list[j].hostname # HostOf(p)
             /\ NumTag(done.ret.list, "MissingAnswer") >= Cardinality(done.raisedAt)
             /\ done.raisedAt # {} => done.timedout)
    /\ []((done.op = "broadcast" /\ ~done.expect) => (done.ret = ReturnNone /\ ~done.raised))
C15_Witness ==
    /\ NetExpect(done) /\ ~done.timedout
    /\ "Q" \in done.recovered /\ "Q" \in done.answered
    /\ \E j \in 1..Len(done.ret.list) : done.ret.list[j] = BroadcastResponse(Reply("Q", 1))
\* C16: the expected count of a Networked broadcast with expect_answers=true
\* is the liveness registry at dispatch and does not change while it waits;
\* nobody outside that snapshot is awaited or answers, so a process that
\* subscribes after the dispatch adds no entry; and every process of the
\* snapshot that did not answer (it unsubscribed, died or failed) is exactly
\* one MissingAnswer of the returned list.
C16_CountFixedAtDispatch ==
    /\ [][\A t \in Tasks :
            task[t].pc = "collect"
            => IF task'[t].pc = "collect"
               THEN task'[t].n = task[t].n /\ task'[t].counted = task[t].counted
               ELSE NetExpect(done') /\ Len(done'.ret.list) = task[t].n
                    /\ done'.counted = task[t].counted]_vars
    /\ [](\A t \in Tasks :
            task[t].pc = "collect"
            => /\ task[t].n = Cardinality(task[t].counted)
               /\ task[t].pending \cup task[t].answered \subseteq task[t].counted)
    /\ [](NetExpect(done)
          => /\ Len(done.ret.list) = Cardinality(done.counted)
             /\ done.answered \subseteq done.counted
             /\ \A j \in 1..Len(done.ret.list) :
                   done.ret.list[j].tag = "BroadcastResponse"
                   => \E p \in done.counted : done.ret.list[j].hostname = HostOf(p)
             /\ NumTag(done.ret.list, "MissingAnswer")
                  = Cardinality(done.counted \ done.answered))
C16_Witness ==
    /\ NetExpect(done) /\ done.timedout
    /\ done.counted = {Self, "Q"} /\ done.answered = {Self}
    /\ done.ret.list = <<BroadcastResponse(Reply(Self, 1)), MissingAnswer>>
    /\ \E t \in Tasks :
          /\ task[t].pc = "collect" /\ task[t].chan = done.chan
          /\ task[t].counted = {Self}
          /\ "Q" \in registry[done.chan] /\ done.chan \in fleet["Q"].channels
\* C17: the liveness entry of a worker that died without unsubscribing is
\* eventually removed and never comes back; a broadcast counts exactly the
\* registry of its channel at dispatch, so none dispatched after the expiry
\* counts the dead worker; and a live subscribed process never loses its entry.
C17_DeadEntriesExpire ==
    /\ \A p \in Remote, c \in Channels :
          (~fleet[p].alive /\ p \in registry[c]) ~> (p \notin registry[c])
    /\ [][\A p \in Remote, c \in Channels :
            (~fleet[p].alive /\ p \notin registry[c]) => p \notin registry'[c]]_vars
    /\ [][\A t \in Tasks :
            (task[t].pc # "collect" /\ task'[t].pc = "collect")
            => task'[t].counted = registry[task'[t].chan]]_vars
    /\ [](\A p \in Remote, c \in Channels :
            (fleet[p].alive /\ c \in fleet[p].channels) => p \in registry[c])
    /\ [](\A c \in Channels :
            (LiveRedis /\ subscribers[_broadcaster][c] # NoHandler) => Self \in registry[c])
C17_Witness ==
    /\ ~fleet["Q"].alive /\ "test1" \in fleet["Q"].channels /\ "Q" \notin registry["test1"]
    /\ NetExpect(done) /\ done.chan = "test1" /\ ~done.timedout
    /\ done.counted = {Self} /\ done.answered = {Self}
    /\ done.ret.list = <<BroadcastResponse(Reply(Self, 1))>>
    /\ \E t \in Tasks : task[t].pc = "sent" /\ "Q" \in task[t].counted
\* ---------------------------------------------------------------------
\* The call of a stub with keyword arguments returned, and the adapter of the
\* stub's function was the handler of its channel when the call dispatched.
StubAnswered ==
    /\ done.op = "stub" /\ ~done.positional /\ ~done.raised
    /\ done.pre = done.stub
    /\ FApply(done.stub, done.kwargs) # Raises
\* The envelope list a single local answer with that payload gives.
OneEnvelope(payload) == ReturnList(<<BroadcastResponse(Dict(add_host_info(payload)))>>)
\* The layer's conversions leave the value a alone: a model instance goes to
\* (comes from) a parameter (a result) declared with the model type, a plain
\* mapping to one that is not.
Kept(a, hint) ==
    /\ a.kind = "model" => hint = "Model"
    /\ a.kind = "dict" => hint # "Model"

\* C18 as stated: with decorate(f, expect_answers=True) on the Local
\* broadcaster, for every keyword argument the stub invokes f exactly once with
\* that argument and returns a list of one envelope whose payload is f applied
\* to it.
C18_RoundTripEveryArgument ==
    (StubAnswered /\ done.expect) =>
        /\ done.ncalls = 1 /\ done.invoked = done.stub
        /\ done.got = done.kwargs
        /\ done.ret = OneEnvelope(FApply(done.stub, done.kwargs))

\* C18 amended: the same for every keyword argument and result that the
\* type-directed conversion of the layer preserves: a model instance only for
\* a parameter (a return) declared with the model type, a plain mapping only
\* for one not declared with a model type.
C18_RoundTripKeptArguments ==
    (/\ StubAnswered /\ done.expect
     /\ Kept(done.kwargs, ParamHint(done.stub))
     /\ Kept(FApply(done.stub, done.kwargs), _get_return_type(done.stub))) =>
        /\ done.ncalls = 1 /\ done.invoked = done.stub
        /\ done.got = done.kwargs
        /\ done.ret = OneEnvelope(FApply(done.stub, done.kwargs))
\* A model sent to a function declared with the model type came back as one.
C18_Witness ==
    /\ StubAnswered /\ done.expect
    /\ done.stub = "echo_model" /\ done.kwargs = Model(12)
    /\ done.ret = OneEnvelope(Model(12))

\* C19: a call of a stub decorated without expect_answers returns None
\* whatever the function returns, and when the adapter of the function is
\* subscribed to the channel in this process the call invokes the function
\* exactly once.
C19_FireAndForgetStub ==
    (done.op = "stub" /\ ~done.expect /\ ~done.positional) =>
        /\ ~done.raised => done.ret = ReturnNone
        /\ done.pre = done.stub => done.ncalls = 1 /\ done.invoked = done.stub
\* cb1_ was called with value=12 and returned 13; its stub returned None.
C19_Witness ==
    /\ done.op = "stub" /\ ~done.expect /\ ~done.positional /\ ~done.raised
    /\ done.stub = "cb1_" /\ done.pre = "cb1_" /\ done.kwargs = Plain(12)
    /\ FApply(done.invoked, done.got) = Plain(13)
    /\ done.ncalls = 1 /\ done.ret = ReturnNone

\* A step that is the call of a stub with positional arguments.
PositionalCall ==
    /\ calls' = calls + 1
    /\ \/ \E t \in Tasks : Suspends(t) /\ task'[t].op = "stub" /\ task'[t].positional
       \/ (\A t \in Tasks : ~Suspends(t)) /\ done'.op = "stub" /\ done'.positional

\* C20: the call of a stub with a positional argument raises at once: no
\* coroutine is left in a broadcast, no handler is invoked, and the active
\* broadcaster, the broadcasters and their subscriptions are as before.
C20_PositionalFailsFast ==
    [][PositionalCall =>
        /\ \A t \in Tasks : ~Suspends(t)
        /\ done'.raised /\ done'.ncalls = 0 /\ done'.invoked = NoHandler
        /\ UNCHANGED <<_broadcaster, kind, inited, subscribers, registry, task, net>>]_vars
\* A stub whose adapter is subscribed was called with a positional argument.
C20_Witness ==
    /\ done.op = "stub" /\ done.positional /\ done.raised
    /\ _broadcaster # 0 /\ subscribers[_broadcaster][done.chan] = done.stub
    /\ done.ncalls = 0

RaisedInDispatch(r) ==
    /\ r.op = "stub" /\ r.expect /\ ~r.positional
    /\ r.ncalls = 1 /\ r.invoked = r.stub
    /\ FApply(r.stub, r.got) = Raises

\* C22: when the decorated function raises in the local dispatch of a stub
\* call made with expect_answers, the call of the stub raises and returns no
\* list, and the step in which it raises leaves the subscriptions as they were.
C22_LocalFailurePropagates ==
    /\ [](RaisedInDispatch(done) => (done.raised /\ done.ret = ReturnNone))
    /\ [][\A t \in Tasks :
            (task[t].pc = "handler" /\ RaisedInDispatch(task[t]) /\ task'[t].pc # "handler")
                => /\ done'.raised /\ done'.stub = task[t].stub
                   /\ UNCHANGED <<_broadcaster, subscribers, registry, net>>]_vars
\* The function raised, the stub raised, and the adapter is still subscribed.
C22_Witness ==
    /\ RaisedInDispatch(done) /\ done.raised
    /\ _broadcaster # 0 /\ subscribers[_broadcaster][done.chan] = done.stub

\* The Facade calls that are neither startup() nor cleanup().
DelegatingOps == {"subscribe", "unsubscribe", "broadcast", "decorate", "stub"}

\* C23 as stated: only steps of startup() and cleanup() change the active
\* reference; subscribe, unsubscribe, broadcast, decorate and the stubs leave
\* it as it is in every state, the uninitialized one included.
C23_OnlyStartupAndCleanupMutate ==
    [][_broadcaster' # _broadcaster => (Starts("startup") \/ Starts("cleanup"))]_vars

\* C23 amended: subscribe, unsubscribe, broadcast, decorate and the stubs leave
\* the active reference unchanged in every state in which a broadcaster is
\* active; in the uninitialized state the only change they make is to store a
\* newly constructed Local broadcaster; every other change of the reference is
\* made by startup() or cleanup().
C23_DelegatesOnlyAutoConstruct ==
    [][_broadcaster' # _broadcaster =>
        \/ Starts("startup")
        \/ Starts("cleanup")
        \/ /\ calls' = calls + 1 /\ StartedOp \in DelegatingOps
           /\ _broadcaster = 0
           /\ kind[_broadcaster'] = "free" /\ kind'[_broadcaster'] = "Local"]_vars
\* The first call of the run was decorate(): it stored the Local broadcaster it
\* had constructed.
C23_Witness ==
    /\ calls = 1 /\ done.op = "decorate"
    /\ _broadcaster = done.inst /\ _broadcaster # 0
    /\ kind[_broadcaster] = "Local" /\ ~inited[_broadcaster]

\* A Networked broadcast that expects answers and has not returned.
InFlight(t) == net.call[t].pc \in {"open", "collect"}

\* C24: while a Networked broadcast that expects answers is in progress, its
\* request is published only when its originator is subscribed to the reply
\* channel, and no Envelope was published for it on a reply channel nobody
\* listened to.
C24_ListensBeforePublish ==
    /\ \A t \in Tasks : (InFlight(t) /\ net.call[t].published) => net.call[t].listening
    /\ \A m \in net.requests : \A t \in Tasks :
            (InFlight(t) /\ net.call[t].req = m.req) => net.call[t].listening
    /\ \A e \in net.lost : ~e.early
\* The originator had subscribed before it published: the Envelope of another
\* process reached it while it waits.
C24_Witness ==
    \E t \in Tasks :
        /\ net.call[t].pc = "collect" /\ net.call[t].listening /\ net.call[t].published
        /\ Len(net.call[t].got) >= 1 /\ net.call[t].got[1].from \in Remote

\* C25: broadcasts that expect answers and are in flight together have
\* different reply channels; the Envelopes a broadcast has received were all
\* produced for its own request, and no two of them come from the same process.
C25_RepliesCorrelated ==
    /\ \A t, u \in Tasks :
            (t # u /\ InFlight(t) /\ InFlight(u)) => net.call[t].reply # net.call[u].reply
    /\ \A t \in Tasks : \A j \in 1..Len(net.call[t].got) :
            /\ net.call[t].got[j].req = net.call[t].req
            /\ \A k \in 1..Len(net.call[t].got) :
                    net.call[t].got[j].from = net.call[t].got[k].from => j = k
\* Two broadcasts on the same channel wait together, and each has received
\* the Envelopes of both processes.
C25_Witness ==
    \E t, u \in Tasks :
        /\ t # u
        /\ net.call[t].pc = "collect" /\ net.call[u].pc = "collect"
        /\ net.call[t].chan = net.call[u].chan
        /\ Len(net.call[t].got) = 2 /\ Len(net.call[u].got) = 2

\* C26: a broadcast suspended in the handler of a Local broadcaster returns
\* the answer of that broadcaster, whatever the active reference has become:
\* the same instance, the handler it called, one Envelope and no timeout; and
\* every subscribe, unsubscribe or broadcast is served by the broadcaster that
\* is active when it starts, so the Networked one serves only the calls that
\* start after it was made active.
C26_InFlightKeepsItsBroadcaster ==
    /\ [][\A t \in Tasks :
            (task[t].pc = "handler" /\ task[t].op = "broadcast" /\ task'[t].pc # "handler")
                => /\ done'.op = "broadcast" /\ done'.inst = task[t].inst
                   /\ kind'[done'.inst] = "Local"
                   /\ done'.invoked = task[t].invoked /\ done'.ncalls = 1
                   /\ ~done'.timedout /\ ~done'.raised
                   /\ done'.expect =>
                        done'.ret = ReturnList(<<BroadcastResponse(Dict(add_host_info(
                                        Apply(task[t].invoked, task[t].param))))>>)]_vars
    /\ [][(calls' = calls + 1 /\ StartedOp \in {"subscribe", "unsubscribe", "broadcast"})
            => /\ StartedInst = _broadcaster'
               /\ _broadcaster # 0 => StartedInst = _broadcaster]_vars
\* The broadcast returned the Envelope of the Local broadcaster after startup()
\* had made a Networked broadcaster the active one.
C26_Witness ==
    /\ done.op = "broadcast" /\ done.swapped /\ done.expect
    /\ kind[done.inst] = "Local" /\ done.ncalls = 1
    /\ Len(done.ret.list) = 1
    /\ _broadcaster # done.inst /\ LiveRedis

\* The record of the call a step starts.
StartedCall == IF \E t \in Tasks : Suspends(t)
               THEN task'[CHOOSE t \in Tasks : Suspends(t)] ELSE done'
\* startup() is migrating (lines 50-53) a Local broadcaster that holds a
\* handler for c, and c was not unsubscribed nor the Facade cleaned up.
MigratingWith(c) ==
    \E u \in Tasks :
        /\ task[u].op = "startup" /\ task[u].pc \in {"mig_init", "mig_copy"}
        /\ ~task[u].cleaned
        /\ subscribers[task[u].prev][c] # NoHandler
        /\ ~unsubscribed[c] /\ ~cleared[c]

\* C27: a broadcast with expect_answers that starts while startup() is
\* migrating a Local broadcaster subscribed to its channel finds that handler:
\* it does not return [] and the handler is dispatched.
C27_NoWindowDuringMigration ==
    [][(/\ calls' = calls + 1
        /\ StartedCall.op = "broadcast" /\ StartedCall.expect
        /\ MigratingWith(StartedCall.chan))
            => /\ StartedCall.pre # NoHandler
               /\ \E t \in Tasks : Suspends(t)]_vars

\* startup() of the coroutine t is suspended in an await, and no cleanup() was
\* called since it started.
InStartup(t) ==
    /\ task[t].op = "startup" /\ task[t].pc \in {"init", "mig_init", "mig_copy"}
    /\ ~task[t].cleaned

\* C28: two overlapping startup() calls never act on the same state of the
\* active reference: not both construct from the uninitialized state, not both
\* migrate the same Local broadcaster, and they never hold the same new
\* instance; a step of startup() constructs at most one broadcaster, and a
\* startup() that returns leaves an active broadcaster.
C28_OneConstructionPerTransition ==
    /\ [](\A t, u \in Tasks :
            (t # u /\ InStartup(t) /\ InStartup(u))
                => /\ task[t].prev # task[u].prev
                   /\ task[t].inst # task[u].inst)
    /\ [][Starts("startup") =>
            /\ NumInst' <= NumInst + 1
            /\ _broadcaster' # 0]_vars
    /\ [][\A t \in Tasks :
            (InStartup(t) /\ task'[t].pc = "idle") => _broadcaster' # 0]_vars
\* The second startup() returned while the first is still in init() of the
\* broadcaster it constructed.
C28_Witness ==
    /\ done.op = "startup" /\ ~done.raised /\ done.target = _broadcaster
    /\ \E u \in Tasks :
            /\ InStartup(u) /\ task[u].pc = "init"
            /\ task[u].inst = _broadcaster /\ ~inited[_broadcaster]

\* The Local broadcaster i was constructed by _get(): init() was never awaited
\* on it, and no startup() is in its init().
AutoLocal(i) ==
    /\ i # 0 /\ kind[i] = "Local" /\ ~inited[i]
    /\ \A u \in Tasks : ~(task[u].op = "startup" /\ task[u].pc = "init" /\ task[u].inst = i)

\* C29: startup() called while a Local broadcaster constructed by _get() is
\* active: without a reachable store it returns at once and leaves the
\* reference, the instance and its subscriptions as they are; with one it
\* starts a migration of that instance, and when the migration has completed
\* (no cleanup() meanwhile, init() succeeding) the Networked broadcaster is
\* active, initialized and holds the handlers subscribed or decorated before;
\* a broadcast or a stub call it then serves without timeout returns the
\* Envelope of the handler, invoked once.
C29_AutoLocalTreatedAsSelected ==
    /\ [][(Starts("startup") /\ AutoLocal(_broadcaster))
            => IF reachable
               THEN /\ StartedCall.op = "startup" /\ StartedCall.pc = "mig_init"
                    /\ StartedCall.prev = _broadcaster
                    /\ _broadcaster' = StartedCall.inst /\ kind'[_broadcaster'] = "Redis"
                    /\ subscribers'[_broadcaster] = subscribers[_broadcaster]
               ELSE /\ \A t \in Tasks : ~Suspends(t)
                    /\ done'.op = "startup" /\ ~done'.raised
                    /\ UNCHANGED <<_broadcaster, kind, inited, subscribers, registry>>]_vars
    /\ []((/\ done.op = "startup" /\ done.prev # 0 /\ AutoLocal(done.prev)
           /\ ~done.cleaned /\ ~done.failed)
          => /\ ~done.raised
             /\ _broadcaster = done.inst /\ IsRedis(done) /\ inited[done.inst]
             /\ \A c \in AllChannels :
                    (subscribers[done.prev][c] # NoHandler /\ c \notin done.touched)
                    => /\ subscribers[done.inst][c] = subscribers[done.prev][c]
                       /\ Self \in registry[c])
    /\ []((/\ done.op \in {"broadcast", "stub"} /\ ~done.positional
           /\ IsRedis(done) /\ done.expect /\ done.n > 0 /\ ~done.timedout)
          => /\ Len(done.ret.list) = done.n /\ done.ncalls = 1
             /\ done.ret.list[1] = BroadcastResponse(Reply(Self, Invoke(done.invoked, done))))
\* cb1_ was decorated before any startup(); startup() migrated the Local
\* broadcaster of _get(); the stub then returned 13 for value=12.
C29_Witness ==
    /\ calls = 3
    /\ done.op = "stub" /\ ~done.positional
    /\ IsRedis(done) /\ done.expect /\ ~done.timedout
    /\ done.kwargs = Plain(12)
    /\ done.ret = ReturnList(<<BroadcastResponse(Reply(Self, Plain(13)))>>)
    /\ AutoLocal(1) /\ subscribers[1][Derived("cb1_")] = "cb1_"
    /\ _broadcaster = done.inst

\* The call of a stub whose channel was held, when the call dispatched, by the
\* adapter of another decorated function.
ShadowedCall ==
    /\ done.op = "stub" /\ ~done.positional
    /\ done.pre \in Funcs /\ done.pre # done.stub
\* The payload a stub hands to its caller, for the payload that arrived and the
\* return type the stub's function declares: a plain mapping becomes a model
\* when that type is a model type.
Handed(payload, hint) ==
    IF payload.kind = "dict" /\ hint = "Model" THEN Model(payload.x) ELSE payload
\* decorate() of a function onto a channel that holds the adapter of another
\* one raises nothing, leaves that adapter subscribed and returns its stub.
DecorateOntoTaken ==
    [][(/\ Starts("decorate") /\ _broadcaster # 0
        /\ subscribers[_broadcaster][done'.chan] \in Funcs \ {done'.stub})
            => /\ ~done'.raised
               /\ [func |-> done'.stub, chan |-> done'.chan, expect |-> done'.expect] \in stubs'
               /\ subscribers' = subscribers]_vars

\* C30 as stated: after decorate(f) and decorate(g) onto one channel both
\* stubs exist and only f's adapter is subscribed; a call of g's stub invokes
\* f, once, and never g, and the payload it returns is f's result as f's own
\* stub returns it.
C30_SecondStubReturnsFirstResults ==
    /\ DecorateOntoTaken
    /\ [](ShadowedCall =>
            /\ done.invoked = done.pre /\ done.ncalls = 1
            /\ (done.expect /\ ~done.raised) =>
                    done.ret = OneEnvelope(Handed(subscribe_func(done.pre, done.wire),
                                                  _get_return_type(done.pre))))

\* C30 amended: the same, the payload being f's result converted by g's stub
\* according to the return type g declares.
C30_SecondStubConvertsFirstResults ==
    /\ DecorateOntoTaken
    /\ [](ShadowedCall =>
            /\ done.invoked = done.pre /\ done.ncalls = 1
            /\ (done.expect /\ ~done.raised) =>
                    done.ret = OneEnvelope(Handed(subscribe_func(done.pre, done.wire),
                                                  _get_return_type(done.stub))))
\* echo was decorated first; the stub of echo_model, given a model, invoked
\* echo with the mapping and returned the mapping rebuilt as a model.
C30_Witness ==
    /\ ShadowedCall /\ done.expect /\ ~done.raised
    /\ done.pre = "echo" /\ done.stub = "echo_model" /\ done.invoked = "echo"
    /\ done.kwargs = Model(12) /\ done.got = Mapping(12)
    /\ done.ret = OneEnvelope(Model(12))
====
